---- MODULE Spec2Model ----
(***************************************************************************)
(* Model of src/src/poi.py: the class poi (a point of interest resolved    *)
(* through the Nominatim geocoding API) and its methods __init__,          *)
(* __geo_decode, route_to (OSRM routing API), __eq__ and __hash__.         *)
(*                                                                         *)
(* The two HTTP services are the environment: every call of requests.get   *)
(* is answered by a response drawn from a bounded set.  Python lists and   *)
(* tuples are sequences; Python's index i is the sequence index i + 1.     *)
(* Coordinates are integers (hundredths of a degree): the code only        *)
(* copies and reorders them.                                               *)
(***************************************************************************)
EXTENDS Integers, Sequences, FiniteSets, TLC

\* ------------------------------------------------------------------ bounds

\* Longest candidate list ('features') of a geocoding response.
MaxFeatures == 2
\* Longest list of steps of routes[0].legs[0] in a routing response.
MaxSteps == 2
\* Number of poi objects the caller keeps alive.
MaxPois == 3

\* ------------------------------------------------------- environment values

None == "None"
\* Value of an attribute that was never assigned on the object.
Unset == "<unset>"

OsmTypes == {"node", "way", "relation"}
OsmIds == {12345, 67890}
Names == {"university of toronto"}
Countries == {"canada"}
Modes == {"driving", "bike", "foot"}
HttpStatus == {200, 404, 500}
RouteCodes == {"Ok", "NoRoute"}

\* What the geocoder may report for an entity: its display label and its
\* [longitude, latitude] position.
Geocodings ==
  { [label |-> "University of Toronto, St George Street, Toronto",
     coordinates |-> <<-7940, 4366>>],
    [label |-> "University of Toronto",
     coordinates |-> <<-7938, 4365>>] }

\* [longitude, latitude] of a maneuver, as OSRM reports it.
Locations == { <<-7940, 4366>>, <<-7938, 4365>> }

SeqsUpTo(S, n) == UNION { [1..k -> S] : k \in 0..n }

\* One feature of a geocodejson response.
Feature(t, id, g) ==
  [properties |-> [geocoding |-> [osm_type |-> t, osm_id |-> id, label |-> g.label]],
   geometry |-> [coordinates |-> g.coordinates]]

Features == { Feature(t, id, g) : t \in OsmTypes, id \in OsmIds, g \in Geocodings }

\* A feature used as the body of responses whose body the code must not read.
SampleFeature ==
  Feature("node", 12345, [label |-> "University of Toronto", coordinates |-> <<-7938, 4365>>])

\* Responses of the geocoding service: any candidate list with status 200;
\* with an error status, an empty list or a list the scan would accept.
GeoResponses ==
  { [status_code |-> 200, json |-> [features |-> fs]] : fs \in SeqsUpTo(Features, MaxFeatures) }
  \cup
  { [status_code |-> st, json |-> [features |-> fs]] :
      st \in HttpStatus \ {200}, fs \in {<< >>, <<SampleFeature>>} }

Step(loc) == [maneuver |-> [location |-> loc]]

RouteJson(steps) ==
  [distance |-> 1520, duration |-> 240, legs |-> << [steps |-> steps] >>]

StepLists == { [i \in DOMAIN locs |-> Step(locs[i])] : locs \in SeqsUpTo(Locations, MaxSteps) }

\* Responses of the routing service.  The status of the request is the
\* 'code' of the JSON body; the HTTP status is independent of it.  A body
\* whose code is not "Ok" carries no route, or one the code must not read.
RouteResponses ==
  { [status_code |-> st, json |-> [code |-> "Ok", routes |-> << RouteJson(steps) >>]] :
      st \in HttpStatus, steps \in StepLists }
  \cup
  { [status_code |-> st, json |-> [code |-> c, routes |-> rs]] :
      st \in HttpStatus, c \in RouteCodes \ {"Ok"},
      rs \in { << >>, << RouteJson(<< Step(<<-7940, 4366>>) >>) >> } }

\* ------------------------------------------------------------------- state

VARIABLES
  pois,      \* the poi objects constructed so far (sequence of attribute records)
  call,      \* the method call whose outcome the caller holds, or NoCall
  response,  \* the HTTP response the service gave during that call
  result     \* how the call ended, what it requested and what it read

vars == <<pois, call, response, result>>

NoCall ==
  [op |-> "none", self |-> 0, other |-> 0, name |-> None, country |-> None,
   osm_type |-> None, mode |-> None]

NoResponse == [status_code |-> 0, json |-> None]

NoExc == [type |-> None, msg |-> None]

\* Outcome of a call: kind is "return" or "raise"; value is what the method
\* returned; self and destination are the objects as the method left them;
\* requests are the HTTP requests it issued, in order; parsed tells whether
\* response.json() was called; index is the last candidate index the scan
\* reached; read is the set of keys of the routing body the method read.
NoResult ==
  [kind |-> "none", exc |-> NoExc, value |-> None, self |-> None,
   destination |-> None, requests |-> << >>, parsed |-> FALSE, index |-> 0,
   read |-> {}]

\* A poi whose constructor has not assigned any attribute yet.
NewObject == [address |-> Unset, osmid |-> Unset, coordinates |-> Unset]

\* ------------------------------------------------------------ poi methods

TransportMsg == << "We couldn't decode the address, please make sure you entered it correctly" >>
KindMsg(osm_type) == << "We couldn't find places with the type", osm_type >>
RouteMsg(src, dest) == << "OSRM couldn't find a route between", src, dest >>

ValueError(msg) == [type |-> "ValueError", msg |-> msg]
\* list index out of range
IndexError == [type |-> "IndexError", msg |-> << "list index out of range" >>]

\* requests.get of line 49
GeoRequest(name, country) ==
  [host |-> "nominatim.openstreetmap.org", path |-> "search",
   params |-> << name, country, "geocodejson" >>]

\* requests.get of line 101
RouteRequest(mode, src, dest) ==
  [host |-> "router.project-osrm.org", path |-> "route/v1",
   params |-> << mode, src[1], src[2], dest[1], dest[2], "steps=true" >>]

\* Variant of scan: takes the first result whatever its kind.
scan_first_result(features, osm_type, index, place) ==
  [exc |-> NoExc, index |-> index, place |-> place]

\* Variant of scan: when the list is exhausted the loop is left with the
\* last candidate instead of raising.
RECURSIVE scan_break(_, _, _, _)
scan_break(features, osm_type, index, place) ==
  IF place.properties.geocoding.osm_type # osm_type
  THEN IF (index + 1) + 1 \in DOMAIN features
       THEN scan_break(features, osm_type, index + 1, features[(index + 1) + 1])
       ELSE [exc |-> NoExc, index |-> index + 1, place |-> place]
  ELSE [exc |-> NoExc, index |-> index, place |-> place]

\* The while loop of __geo_decode.  index is the Python index of place in
\* features; features[index] of the code is features[index + 1] here.  The
\* bare except turns the failed indexing into the ValueError.
RECURSIVE scan(_, _, _, _)
scan(features, osm_type, index, place) ==
  IF place.properties.geocoding.osm_type # osm_type
  THEN IF (index + 1) + 1 \in DOMAIN features
       THEN scan(features, osm_type, index + 1, features[(index + 1) + 1])
       ELSE [exc |-> ValueError(KindMsg(osm_type)), index |-> index + 1, place |-> place]
  ELSE [exc |-> NoExc, index |-> index, place |-> place]

\* Variant of __geo_decode: response.json() is called before the status is
\* checked.
__geo_decode_parse_first(self, name, country, osm_type, http) ==
  LET sent == [NoResult EXCEPT !.self = self,
                               !.requests = << GeoRequest(name, country) >>]
      response_json == http.json
      features == response_json.features
      got == [sent EXCEPT !.parsed = TRUE]
  IN
  IF http.status_code # 200
  THEN [got EXCEPT !.kind = "raise", !.exc = ValueError(TransportMsg)]
  ELSE
    IF 0 + 1 \notin DOMAIN features
    THEN [got EXCEPT !.kind = "raise", !.exc = IndexError]
    ELSE
      LET s == scan(features, osm_type, 0, features[0 + 1])
          place == s.place
      IN
      IF s.exc # NoExc
      THEN [got EXCEPT !.kind = "raise", !.exc = s.exc, !.index = s.index]
      ELSE [got EXCEPT !.kind = "return", !.index = s.index,
                       !.self = [address |-> place.properties.geocoding.label,
                                 osmid |-> place.properties.geocoding.osm_id,
                                 coordinates |-> place.geometry.coordinates]]

__geo_decode(self, name, country, osm_type, http) ==
  LET sent == [NoResult EXCEPT !.self = self,
                               !.requests = << GeoRequest(name, country) >>]
  IN
  IF http.status_code # 200
  THEN [sent EXCEPT !.kind = "raise", !.exc = ValueError(TransportMsg)]
  ELSE
    LET response_json == http.json
        features == response_json.features
        got == [sent EXCEPT !.parsed = TRUE]
    IN
    IF 0 + 1 \notin DOMAIN features
    THEN [got EXCEPT !.kind = "raise", !.exc = IndexError]
    ELSE
      LET s == scan(features, osm_type, 0, features[0 + 1])
          place == s.place
      IN
      IF s.exc # NoExc
      THEN [got EXCEPT !.kind = "raise", !.exc = s.exc, !.index = s.index]
      ELSE [got EXCEPT !.kind = "return", !.index = s.index,
                       !.self = [address |-> place.properties.geocoding.label,
                                 osmid |-> place.properties.geocoding.osm_id,
                                 coordinates |-> place.geometry.coordinates]]

__init__(self, name, country, osm_type, http) ==
  __geo_decode(self, name, country, osm_type, http)

\* Variant of Reversed: the location is kept in (longitude, latitude) order.
Reversed_kept(location) == location

\* location[::-1]
Reversed(location) ==
  [i \in 1..Len(location) |-> location[Len(location) + 1 - i]]

\* The for loop of route_to: one appended tuple per step, in order.
RECURSIVE route_steps(_, _, _)
route_steps(steps, i, route_coords) ==
  IF i > Len(steps)
  THEN route_coords
  ELSE LET maneuver == steps[i].maneuver
           location == Reversed(maneuver.location)
       IN route_steps(steps, i + 1, Append(route_coords, location))

\* Variant of route_to: the failure test looks at the routes, not at the code.
route_to_checks_routes(self, destination, mode, http) ==
  LET src == self.coordinates
      dest == destination.coordinates
      response_json == http.json
      got == [NoResult EXCEPT !.self = self, !.destination = destination,
                              !.requests = << RouteRequest(mode, src, dest) >>,
                              !.parsed = TRUE, !.read = {"code"}]
  IN
  IF response_json.routes = << >>
  THEN [got EXCEPT !.kind = "raise", !.exc = ValueError(RouteMsg(src, dest))]
  ELSE
    LET route == response_json.routes[0 + 1]
        cost == route.distance
        duration == route.duration
        legs == route.legs[0 + 1]
        steps == legs.steps
        route_coords == route_steps(steps, 1, << >>)
    IN [got EXCEPT !.kind = "return",
                   !.read = {"code", "routes", "distance", "duration", "legs", "steps",
                             "maneuver", "location"},
                   !.value = [route |-> route_coords, length |-> cost,
                              duration |-> duration]]

\* Variant of route_to: a failed request is issued a second time.
route_to_retry(self, destination, mode, http) ==
  LET src == self.coordinates
      dest == destination.coordinates
      response_json == http.json
      got == [NoResult EXCEPT !.self = self, !.destination = destination,
                              !.requests = << RouteRequest(mode, src, dest) >>,
                              !.parsed = TRUE, !.read = {"code"}]
  IN
  IF response_json.code # "Ok"
  THEN [got EXCEPT !.kind = "raise", !.exc = ValueError(RouteMsg(src, dest)),
                   !.requests = << RouteRequest(mode, src, dest),
                                   RouteRequest(mode, src, dest) >>]
  ELSE
    LET route == response_json.routes[0 + 1]
        cost == route.distance
        duration == route.duration
        legs == route.legs[0 + 1]
        steps == legs.steps
        route_coords == route_steps(steps, 1, << >>)
    IN [got EXCEPT !.kind = "return",
                   !.read = {"code", "routes", "distance", "duration", "legs", "steps",
                             "maneuver", "location"},
                   !.value = [route |-> route_coords, length |-> cost,
                              duration |-> duration]]

\* Variant of route_to: the origin's coordinates are reordered in place.
route_to_swaps_self(self, destination, mode, http) ==
  LET src == self.coordinates
      dest == destination.coordinates
      response_json == http.json
      got == [NoResult EXCEPT !.self = [self EXCEPT !.coordinates = Reversed(src)], !.destination = destination,
                              !.requests = << RouteRequest(mode, src, dest) >>,
                              !.parsed = TRUE, !.read = {"code"}]
  IN
  IF response_json.code # "Ok"
  THEN [got EXCEPT !.kind = "raise", !.exc = ValueError(RouteMsg(src, dest))]
  ELSE
    LET route == response_json.routes[0 + 1]
        cost == route.distance
        duration == route.duration
        legs == route.legs[0 + 1]
        steps == legs.steps
        route_coords == route_steps(steps, 1, << >>)
    IN [got EXCEPT !.kind = "return",
                   !.read = {"code", "routes", "distance", "duration", "legs", "steps",
                             "maneuver", "location"},
                   !.value = [route |-> route_coords, length |-> cost,
                              duration |-> duration]]

route_to(self, destination, mode, http) ==
  LET src == self.coordinates
      dest == destination.coordinates
      response_json == http.json
      got == [NoResult EXCEPT !.self = self, !.destination = destination,
                              !.requests = << RouteRequest(mode, src, dest) >>,
                              !.parsed = TRUE, !.read = {"code"}]
  IN
  IF response_json.code # "Ok"
  THEN [got EXCEPT !.kind = "raise", !.exc = ValueError(RouteMsg(src, dest))]
  ELSE
    LET route == response_json.routes[0 + 1]
        cost == route.distance
        duration == route.duration
        legs == route.legs[0 + 1]
        steps == legs.steps
        route_coords == route_steps(steps, 1, << >>)
    IN [got EXCEPT !.kind = "return",
                   !.read = {"code", "routes", "distance", "duration", "legs", "steps",
                             "maneuver", "location"},
                   !.value = [route |-> route_coords, length |-> cost,
                              duration |-> duration]]

\* Variant of __eq__: every attribute is compared.
__eq__all_fields(self, other) == self = other

__eq__(self, other) == self.osmid = other.osmid

__hash__(self) == self.osmid

\* ----------------------------------------------------------------- actions

Init ==
  /\ pois = << >>
  /\ call = NoCall
  /\ response = NoResponse
  /\ result = NoResult

\* poi(name, country, osm_type): the object exists for the caller only when
\* the constructor returns.
Construct ==
  /\ call.op = "none"
  /\ Len(pois) < MaxPois
  /\ \E name \in Names, country \in Countries, osm_type \in OsmTypes, http \in GeoResponses :
       LET r == __init__(NewObject, name, country, osm_type, http) IN
       /\ call' = [NoCall EXCEPT !.op = "__init__", !.self = Len(pois) + 1,
                                 !.name = name, !.country = country,
                                 !.osm_type = osm_type]
       /\ response' = http
       /\ result' = r
       /\ pois' = IF r.kind = "return" THEN Append(pois, r.self) ELSE pois

\* pois[s].route_to(pois[d], mode)
RouteTo ==
  /\ call.op = "none"
  /\ \E s \in DOMAIN pois, d \in DOMAIN pois, mode \in Modes, http \in RouteResponses :
       LET r == route_to(pois[s], pois[d], mode, http) IN
       /\ call' = [NoCall EXCEPT !.op = "route_to", !.self = s, !.other = d,
                                 !.mode = mode]
       /\ response' = http
       /\ result' = r
       /\ pois' = [i \in DOMAIN pois |->
                    IF i = s THEN r.self ELSE IF i = d THEN r.destination ELSE pois[i]]

\* pois[s] == pois[d]
Compare ==
  /\ call.op = "none"
  /\ \E s \in DOMAIN pois, d \in DOMAIN pois :
       /\ call' = [NoCall EXCEPT !.op = "__eq__", !.self = s, !.other = d]
       /\ result' = [NoResult EXCEPT !.kind = "return", !.self = pois[s],
                                     !.destination = pois[d],
                                     !.value = __eq__(pois[s], pois[d])]
  /\ UNCHANGED <<pois, response>>

\* hash(pois[s])
Hash ==
  /\ call.op = "none"
  /\ \E s \in DOMAIN pois :
       /\ call' = [NoCall EXCEPT !.op = "__hash__", !.self = s]
       /\ result' = [NoResult EXCEPT !.kind = "return", !.self = pois[s],
                                     !.value = __hash__(pois[s])]
  /\ UNCHANGED <<pois, response>>

\* The caller is done with the outcome of the call: the response, the
\* returned value or the exception are dropped.  The objects stay.
Return ==
  /\ call.op # "none"
  /\ call' = NoCall
  /\ response' = NoResponse
  /\ result' = NoResult
  /\ UNCHANGED pois

Next == Construct \/ RouteTo \/ Compare \/ Hash \/ Return

Spec == Init /\ [][Next]_vars

\* ------------------------------------------------------------- properties

KindOf(f) == f.properties.geocoding.osm_type

Resolving == call.op = "__init__"
Routing == call.op = "route_to"

\* The candidate list of the geocoding response of the call.
Candidates == response.json.features

HasKind(fs, t) == \E i \in DOMAIN fs : KindOf(fs[i]) = t

\* The position (from 1) of the first candidate of kind t.
FirstOfKind(fs, t) ==
  CHOOSE i \in DOMAIN fs : KindOf(fs[i]) = t /\ \A j \in 1..(i - 1) : KindOf(fs[j]) # t

\* C1: a status-200 response with at least one candidate of the requested
\* osm_type makes the constructor succeed, and the object gets the address,
\* osmid and coordinates of the lowest-index candidate of that osm_type;
\* candidates of another kind before it are skipped.
C1_FirstCandidateOfKind ==
  (Resolving /\ response.status_code = 200 /\ HasKind(Candidates, call.osm_type))
  => LET k == FirstOfKind(Candidates, call.osm_type)
         f == Candidates[k]
     IN /\ result.kind = "return"
        /\ result.index = k - 1
        /\ KindOf(f) = call.osm_type
        /\ result.self = [address |-> f.properties.geocoding.label,
                          osmid |-> f.properties.geocoding.osm_id,
                          coordinates |-> f.geometry.coordinates]
        /\ Len(pois) = call.self
        /\ pois[call.self] = result.self

\* A resolution that skipped a candidate of another kind carrying other data.
C1_Witness ==
  /\ Resolving /\ result.kind = "return" /\ result.index = 1
  /\ KindOf(Candidates[1]) # call.osm_type
  /\ Candidates[1].properties.geocoding.osm_id # result.self.osmid
  /\ Candidates[1].properties.geocoding.label # result.self.address

\* C2: a status-200 response with an empty candidate list fails with the
\* same error as "kind not found", never with an indexing fault.
C2_EmptyListIsKindNotFound ==
  (Resolving /\ response.status_code = 200 /\ Candidates = << >>)
  => /\ result.kind = "raise"
     /\ result.exc = ValueError(KindMsg(call.osm_type))
     /\ result.exc.type # "IndexError"

\* C3: a status-200 response with a non-empty candidate list none of which
\* has the requested osm_type is scanned to its end and fails with the
\* ValueError of the "kind not found" message, which is not the transport
\* failure message; no object is produced and no attribute is set.
C3_NoCandidateOfKind ==
  (Resolving /\ response.status_code = 200 /\ Candidates # << >>
     /\ ~HasKind(Candidates, call.osm_type))
  => /\ result.kind = "raise"
     /\ result.exc = ValueError(KindMsg(call.osm_type))
     /\ result.exc.msg # TransportMsg
     /\ result.index = Len(Candidates)
     /\ result.self = NewObject
     /\ Len(pois) = call.self - 1

\* Two candidates, both of another kind, were scanned before the failure.
C3_Witness ==
  /\ Resolving /\ response.status_code = 200 /\ Len(Candidates) = 2
  /\ ~HasKind(Candidates, call.osm_type)
  /\ result.kind = "raise" /\ result.index = 2

\* C4: any status other than 200 makes the constructor raise the transport
\* ValueError before response.json() is called and before any candidate is
\* looked at; no object is produced.
C4_StatusCheckedBeforeParse ==
  (Resolving /\ response.status_code # 200)
  => /\ result.kind = "raise"
     /\ result.exc = ValueError(TransportMsg)
     /\ ~result.parsed
     /\ result.index = 0
     /\ result.self = NewObject
     /\ Len(pois) = call.self - 1

\* A 404 whose body holds a candidate the scan would have accepted.
C4_Witness ==
  /\ Resolving /\ response.status_code = 404 /\ result.kind = "raise"
  /\ HasKind(Candidates, call.osm_type)

\* C5: a routing body whose code is not "Ok" makes route_to raise and return
\* nothing, whatever the HTTP status, and only the code is read from the body.
C5_CodeNotOkRaises ==
  (Routing /\ response.json.code # "Ok")
  => /\ result.kind = "raise"
     /\ result.exc.type = "ValueError"
     /\ result.exc.msg = RouteMsg(pois[call.self].coordinates, pois[call.other].coordinates)
     /\ result.value = None
     /\ result.read = {"code"}

\* HTTP 200, code not "Ok", and a route in the body that was left unread.
C5_Witness ==
  /\ Routing /\ response.status_code = 200 /\ response.json.code # "Ok"
  /\ response.json.routes # << >>
  /\ result.kind = "raise"

\* The steps of the first leg of the first route of the routing response.
Steps == response.json.routes[1].legs[1].steps

\* C6: for a routing body whose code is "Ok", the returned path has one entry
\* per step of routes[0].legs[0], in the order of the steps, and entry i is
\* the maneuver location of step i with (longitude, latitude) turned into
\* (latitude, longitude).
C6_PathIsSwappedLocations ==
  (Routing /\ response.json.code = "Ok")
  => /\ result.kind = "return"
     /\ Len(result.value.route) = Len(Steps)
     /\ \A i \in DOMAIN Steps :
          LET location == Steps[i].maneuver.location
          IN result.value.route[i] = << location[2], location[1] >>
     /\ result.value.length = response.json.routes[1].distance
     /\ result.value.duration = response.json.routes[1].duration

\* Locations [[-79.40, 43.66], [-79.38, 43.65]] gave [(43.66, -79.40), (43.65, -79.38)].
C6_Witness ==
  /\ Routing /\ response.json.code = "Ok"
  /\ Steps = << Step(<<-7940, 4366>>), Step(<<-7938, 4365>>) >>
  /\ result.kind = "return"
  /\ result.value.route = << <<4366, -7940>>, <<4365, -7938>> >>

Range(f) == { f[i] : i \in DOMAIN f }

\* C7: a == b holds exactly when the osmids are equal, whatever the
\* addresses and coordinates; on the objects constructed so far the relation
\* is reflexive, symmetric and transitive.
C7_EqualityIsByOsmid ==
  /\ call.op = "__eq__"
       => (result.value <=> pois[call.self].osmid = pois[call.other].osmid)
  /\ \A a \in Range(pois) : __eq__(a, a)
  /\ \A a, b \in Range(pois) :
       /\ __eq__(a, b) <=> a.osmid = b.osmid
       /\ __eq__(a, b) => __eq__(b, a)
  /\ \A a, b, c \in Range(pois) : (__eq__(a, b) /\ __eq__(b, c)) => __eq__(a, c)

\* Two objects with one osmid and different addresses and coordinates
\* compared equal, while a third object with another osmid exists.
C7_Witness ==
  /\ call.op = "__eq__" /\ result.value = TRUE
  /\ pois[call.self].address # pois[call.other].address
  /\ pois[call.self].coordinates # pois[call.other].coordinates
  /\ \E c \in Range(pois) : c.osmid # pois[call.self].osmid

\* C8: the constructor issues exactly one request, to the geocoding service,
\* and route_to exactly one, to the routing service, on every path, whether
\* the call returns or raises.
C8_OneRequestPerCall ==
  /\ Resolving
       => result.requests = << GeoRequest(call.name, call.country) >>
  /\ Routing
       => result.requests = << RouteRequest(call.mode, pois[call.self].coordinates,
                                            pois[call.other].coordinates) >>
  /\ call.op \in {"__eq__", "__hash__"} => result.requests = << >>

\* A route_to that failed after its single request.
C8_Witness ==
  /\ Routing /\ result.kind = "raise" /\ Len(result.requests) = 1

IsGeoRequest(r) == r.host = "nominatim.openstreetmap.org"

\* C9: an object, once constructed, never changes: every step keeps the
\* address, osmid and coordinates of every existing object, and route_to,
\* __eq__ and __hash__ neither add an object nor issue a geocoding request.
C9_PoisNeverChange ==
  [][ /\ \A i \in DOMAIN pois : i \in DOMAIN pois' /\ pois'[i] = pois[i]
      /\ call'.op \in {"route_to", "__eq__", "__hash__"}
           => /\ pois' = pois
              /\ \A k \in DOMAIN result'.requests : ~IsGeoRequest(result'.requests[k])
    ]_vars

\* A route between two different objects was computed.
C9_Witness ==
  /\ Routing /\ call.self # call.other /\ result.kind = "return"
  /\ Len(result.value.route) > 0
  /\ pois[call.self].coordinates # pois[call.other].coordinates

\* C10: whenever route_to returns a route, the returned path is non-empty.
C10_PathNonEmpty ==
  (Routing /\ result.kind = "return") => Len(result.value.route) >= 1

====
